---- MODULE Spec2Model ----
(***************************************************************************)
(* Model of the ruma homeserver's /logout and /createRoom endpoints        *)
(* (src/src/api/r0/logout.rs, src/src/api/r0/room_creation.rs) on top of   *)
(* the tables of src/src/schema.rs.  Requests are handled by concurrent    *)
(* workers; every storage statement is one atomic step.  The credential    *)
(* engine (Issue / Verify / Revoke), Room::create and                      *)
(* RoomMembership::create are not part of the sources at hand and are      *)
(* modelled from the specification's sections 4.1, 4.3 and 4.5.            *)
(* Three smaller parts stand beside the request handling: the option       *)
(* handling of CreateRoom::handle (SpecOptions), the membership ledger of   *)
(* section 4.4 (SpecLedger) and the start of `ruma run` with its            *)
(* configuration file, src/src/config.rs and src/src/main.rs (SpecConfig).  *)
(***************************************************************************)
EXTENDS Integers, Sequences, FiniteSets, TLC

\* ------------------------------------------------------------- bounds
MaxTokens == 2
MaxRooms == 2
MaxEvents == 3
MaxTime == 2
MaxKeyChars == 48

Users == {"@alice", "@bob"}
Workers == {"w1", "w2"}
Aliases == {"foo"}

None == "none"
\* The values a request may carry in "visibility": absent, the two legal
\* strings and some other string.
Visibilities == {None, "public", "private", "bogus"}

VARIABLES
    access_tokens,      \* table access_tokens: sequence of rows, id = index
    rooms,              \* table rooms: set of rows
    events,             \* table events: set of rows
    room_memberships,   \* table room_memberships: set of rows
    room_aliases,       \* table room_aliases: set of rows
    next_room,          \* how many room ids RoomId::new has generated
    req,                \* per worker: the request it is handling; its field
                        \* storage counts the storage calls made for it
    ledger,             \* table room_memberships as the membership ledger:
                        \* its rows in the order they were appended
    main,               \* the process: main's position, its configuration
                        \* file and whether a server was created
    creation            \* one pass through the option handling of
                        \* CreateRoom::handle, from request to options

vars == <<access_tokens, rooms, events, room_memberships, room_aliases, next_room, req,
          ledger, main, creation>>
others == <<ledger, main, creation>>
tables == <<access_tokens, rooms, events, room_memberships, room_aliases>>
room_tables == <<rooms, events, room_memberships, room_aliases>>

\* ------------------------------------------------------------- schema
AccessTokenRow(user_id, value) == [user_id |-> user_id, value |-> value, revoked |-> FALSE]

RoomRow(id, user_id, public) == [id |-> id, user_id |-> user_id, public |-> public]

EventRow(room_id, user_id, event_type) ==
    [room_id |-> room_id, user_id |-> user_id, event_type |-> event_type]

RoomMembershipRow(room_id, user_id, sender, membership) ==
    [room_id |-> room_id, user_id |-> user_id, sender |-> sender, membership |-> membership]

RoomAliasRow(alias, room_id, user_id) == [alias |-> alias, room_id |-> room_id, user_id |-> user_id]

\* room_aliases (alias): the alias column is the table's primary key, so an
\* insert of an alias that a committed row holds is a unique violation.
room_aliases_pk_NoConstraint(table, alias) == FALSE

room_aliases_pk(table, alias) == \E r \in table : r.alias = alias

\* ------------------------------------------------------------- credential engine
\* Issue: a row with revoked = false and a value no other row has.
Issue(tokens, user_id) == Append(tokens, AccessTokenRow(user_id, Len(tokens) + 1))

\* Verify: the id of the unrevoked row with the presented value, 0 if none.
Verify(tokens, value) ==
    IF \E i \in 1..Len(tokens) : tokens[i].value = value /\ ~tokens[i].revoked
    THEN CHOOSE i \in 1..Len(tokens) : tokens[i].value = value /\ ~tokens[i].revoked
    ELSE 0

\* Revoke: sets revoked = true on the token's row.
Revoke(tokens, id) == [tokens EXCEPT ![id].revoked = TRUE]

\* ------------------------------------------------------------- requests
EmptyTx == [rooms |-> {}, events |-> {}, room_memberships |-> {}, room_aliases |-> {}]

Bodies ==
    {[parsed |-> FALSE, visibility |-> None, room_alias_name |-> None]} \cup
    [parsed : {TRUE}, visibility : Visibilities, room_alias_name : Aliases \cup {None}]

Idle ==
    [pc |-> "idle", kind |-> None, token |-> 0,
     body |-> [parsed |-> FALSE, visibility |-> None, room_alias_name |-> None],
     user |-> None, access_token |-> 0, room_id |-> 0, tx |-> EmptyTx, response |-> None,
     storage |-> 0]

\* ------------------------------------------------------------- configuration
\* A macaroon_secret_key as written in the configuration file: how many
\* characters it has, how many of them are trailing '=' and whether all the
\* others are of the Base64 alphabet.
Key(chars, pad, alphabet) == [chars |-> chars, pad |-> pad, alphabet |-> alphabet]

\* The process once `run` has loaded a configuration and serves requests.
Serving == [pc |-> "serving", file_ok |-> TRUE, key |-> Key(44, 1, TRUE), server |-> TRUE]

\* Option<bool>
NoBool == [some |-> FALSE, value |-> FALSE]
OptionBool == {NoBool} \cup [some : {TRUE}, value : BOOLEAN]

\* creation_content: Option<CreationContent>, CreationContent { federate: Option<bool> }
NoCreationContent == [some |-> FALSE, federate |-> NoBool]
CreationContents == {NoCreationContent} \cup [some : {TRUE}, federate : OptionBool]

\* preset: Option<RoomPreset>
Presets == {None, "PrivateChat", "PublicChat", "TrustedPrivateChat"}

\* No request is in the option handling of CreateRoom::handle.
NoCreation ==
    [pc |-> "none", visibility |-> None, preset |-> None,
     creation_content |-> NoCreationContent,
     public |-> FALSE, federate |-> FALSE, options_preset |-> None]

\* middleware_chain!(Logout, [AccessTokenAuth]);
LogoutChain_NoAuth == <<>>

LogoutChain == <<"AccessTokenAuth">>

\* middleware_chain!(CreateRoom, [JsonRequest, AccessTokenAuth]);
CreateRoomChain_NoAuth == <<"JsonRequest">>

CreateRoomChain == <<"JsonRequest", "AccessTokenAuth">>

ChainOf(kind) == IF kind = "logout" THEN LogoutChain ELSE CreateRoomChain

InChain(chain, m) == \E i \in 1..Len(chain) : chain[i] = m

Init ==
    /\ access_tokens = <<>>
    /\ rooms = {}
    /\ events = {}
    /\ room_memberships = {}
    /\ room_aliases = {}
    /\ next_room = 0
    /\ req = [w \in Workers |-> Idle]
    /\ ledger = <<>>
    /\ main = Serving
    /\ creation = NoCreation

\* Test::create_access_token / Issue(user_id).
IssueToken(u) ==
    /\ Len(access_tokens) < MaxTokens
    /\ access_tokens' = Issue(access_tokens, u)
    /\ UNCHANGED <<room_tables, next_room, req, others>>

\* What is left of a request once it has been answered (or dropped): the
\* presented token, the requested visibility, the generated room id, the
\* response and the number of storage calls made for it.
Answered(r, pc, response) ==
    [Idle EXCEPT !.pc = pc, !.kind = r.kind, !.token = r.token,
                 !.body = [Idle.body EXCEPT !.visibility = r.body.visibility],
                 !.room_id = r.room_id, !.response = response,
                 !.storage = r.storage]

\* The before-middleware of the endpoint's chain, run on request r.
\* AccessTokenAuth resolves the presented token and puts the User and the
\* AccessToken into the request's extensions, or ends the request with an
\* authorization failure.  Resolving the token is one storage call.
BeforeChain_LeaksRevoked(r, tokens) ==
    LET id == Verify(tokens, r.token)
        looked_up == [r EXCEPT !.storage = @ + 1]
    IN
    IF id # 0
    THEN [looked_up EXCEPT !.pc = "handle", !.user = tokens[id].user_id, !.access_token = id]
    ELSE IF \E i \in 1..Len(tokens) : tokens[i].value = r.token
    THEN Answered(looked_up, "done", "TokenRevoked")
    ELSE Answered(looked_up, "done", "Unauthenticated")

BeforeChain(r, tokens) ==
    IF InChain(ChainOf(r.kind), "AccessTokenAuth")
    THEN LET id == Verify(tokens, r.token)
             looked_up == [r EXCEPT !.storage = @ + 1]
         IN
         IF id = 0
         THEN Answered(looked_up, "done", "Unauthenticated")
         ELSE [looked_up EXCEPT !.pc = "handle", !.user = tokens[id].user_id,
                                !.access_token = id]
    ELSE [r EXCEPT !.pc = "handle"]

\* A request arrives at a free worker and passes the endpoint's chain.  The
\* presented token is the value of an issued token or 0, a value that was
\* never issued.
Receive(w, kind, token, body) ==
    /\ req[w].pc = "idle"
    /\ req' = [req EXCEPT ![w] =
                 BeforeChain([Idle EXCEPT !.kind = kind, !.token = token, !.body = body],
                             access_tokens)]
    /\ UNCHANGED <<tables, next_room, others>>

\* Request r after one more call on its storage connection.
StorageCall(r) == [r EXCEPT !.storage = @ + 1]

\* ------------------------------------------------------------- /logout
\* access_token.revoke(&connection)?
LogoutRevoke_Skipped(tokens, id) == tokens

LogoutRevoke_AllOfUser(tokens, id) ==
    [i \in 1..Len(tokens) |->
        IF tokens[i].user_id = tokens[id].user_id
        THEN [tokens[i] EXCEPT !.revoked = TRUE]
        ELSE tokens[i]]

LogoutRevoke_Toggles(tokens, id) == [tokens EXCEPT ![id].revoked = ~@]

LogoutRevoke(tokens, id) == Revoke(tokens, id)

\* Logout::handle.  db_ok: DB::from_request found a connection; save_ok: the
\* row update went through.
LogoutHandle(w) ==
    /\ req[w].pc = "handle"
    /\ req[w].kind = "logout"
    /\ \E db_ok \in BOOLEAN, save_ok \in BOOLEAN :
        IF ~db_ok
        THEN /\ req' = [req EXCEPT ![w] = Answered(@, "done", "StorageError")]
             /\ UNCHANGED <<tables, next_room, others>>
        ELSE IF req[w].access_token = 0
        THEN \* expect("AccessTokenAuth should ensure an access token")
             /\ req' = [req EXCEPT ![w] = Answered(@, "panic", None)]
             /\ UNCHANGED <<tables, next_room, others>>
        ELSE IF ~save_ok
        THEN /\ req' = [req EXCEPT ![w] = Answered(StorageCall(@), "done", "StorageError")]
             /\ UNCHANGED <<tables, next_room, others>>
        ELSE /\ access_tokens' = LogoutRevoke(access_tokens, req[w].access_token)
             /\ req' = [req EXCEPT ![w] = Answered(StorageCall(@), "done", "Ok")]
             /\ UNCHANGED <<room_tables, next_room, others>>

\* ------------------------------------------------------------- /createRoom
\* CreateRoomRequest::validate: Ok exactly when visibility is absent,
\* "public" or "private".
validate_AcceptsAll(body) == TRUE

validate(body) ==
    ~(body.visibility # None /\ body.visibility # "public" /\ body.visibility # "private")

\* let create_room_request: CreateRoomRequest = match request.get::<bodyparser::Struct<..>>()
\* Ok(Some(..)) for a body of the structure of CreateRoomRequest, an error
\* answered as M_BAD_JSON otherwise.
ParseBody_Lenient(body) == TRUE

ParseBody(body) == body.parsed

\* public: create_room_request.visibility.map_or(false, |v| v == "public")
NewRoomPublic_DefaultTrue(visibility) == IF visibility = None THEN TRUE ELSE visibility = "public"

NewRoomPublic(visibility) == IF visibility = None THEN FALSE ELSE visibility = "public"

\* connection.transaction(|| ...): what the store receives when the closure
\* returns: the closure's writes on Ok, nothing on Err.
TransactionOutcome_NoRollback(tx, ok) == tx

TransactionOutcome_NeverCommits(tx, ok) == EmptyTx

TransactionOutcome(tx, ok) == IF ok THEN tx ELSE EmptyTx

\* .map_err(ApiError::from)?: the error of the transaction is the error of
\* the request.
TransactionError_AsBadJson(error) == "M_BAD_JSON"

TransactionError(error) == error

\* The error of reserving an alias that is already reserved.
AliasTaken == "Conflict"

\* The client errors of the taxonomy.
ClientErrors == {"Unauthenticated", "M_BAD_JSON", "Conflict"}

\* CreateRoom::handle up to the opening of the transaction.
CreateRoomHandle(w) ==
    /\ req[w].pc = "handle"
    /\ req[w].kind = "createRoom"
    /\ IF req[w].user = None
       THEN \* expect("AccessTokenAuth should ensure a user")
            /\ req' = [req EXCEPT ![w] = Answered(@, "panic", None)]
            /\ UNCHANGED next_room
       ELSE IF ~ParseBody(req[w].body) \/ ~validate(req[w].body)
       THEN /\ req' = [req EXCEPT ![w] = Answered(@, "done", "M_BAD_JSON")]
            /\ UNCHANGED next_room
       ELSE \/ \* DB::from_request, Config::from_request or RoomId::new fails
               /\ req' = [req EXCEPT ![w] = Answered(@, "done", "StorageError")]
               /\ UNCHANGED next_room
            \/ /\ next_room < MaxRooms
               /\ next_room' = next_room + 1
               /\ req' = [req EXCEPT ![w].pc = "tx_room_create", ![w].room_id = next_room + 1]
    /\ UNCHANGED <<tables, others>>

\* The closure of the transaction of request r ends: committed on Ok, rolled
\* back on Err.
EndTransaction(w, r, tx, ok, pc, response) ==
    LET out == TransactionOutcome(tx, ok) IN
    /\ rooms' = rooms \cup out.rooms
    /\ events' = events \cup out.events
    /\ room_memberships' = room_memberships \cup out.room_memberships
    /\ room_aliases' = room_aliases \cup out.room_aliases
    /\ req' = [req EXCEPT ![w] = Answered(r, pc, response)]
    /\ UNCHANGED <<access_tokens, next_room, others>>

\* room_memberships row of RoomMembershipOptions { room_id: room.id,
\* user_id: room.user_id, sender: room.user_id, membership: "join" }
FoundingMembership_Invite(room) ==
    RoomMembershipRow(room.id, room.user_id, room.user_id, "invite")

FoundingMembership(room) == RoomMembershipRow(room.id, room.user_id, room.user_id, "join")

\* The rows Room::create writes for new_room and creation_options: the Room
\* row (owner = creator), the room's creation event and, if an alias was
\* requested, its reservation for the room.
RoomCreateRows(room, alias) ==
    [rooms |-> {room},
     events |-> {EventRow(room.id, room.user_id, "m.room.create")},
     room_memberships |-> {},
     room_aliases |-> IF alias = None THEN {} ELSE {RoomAliasRow(alias, room.id, room.user_id)}]

\* let room = Room::create(&connection, &new_room, &config.domain,
\*                         &creation_options)?;
\* The rows stay private to the transaction.  The insert of an alias that
\* another open transaction has inserted waits for that transaction to end;
\* the insert of an alias a committed row holds fails.
TxRoomCreate(w) ==
    /\ req[w].pc = "tx_room_create"
    /\ LET alias == req[w].body.room_alias_name
           room == RoomRow(req[w].room_id, req[w].user, NewRoomPublic(req[w].body.visibility))
       IN
       /\ alias # None =>
            \A o \in Workers \ {w} : \A r \in req[o].tx.room_aliases : r.alias # alias
       /\ IF alias # None /\ room_aliases_pk(room_aliases, alias)
          THEN EndTransaction(w, StorageCall(req[w]), req[w].tx, FALSE, "done",
                              TransactionError(AliasTaken))
          ELSE \/ /\ req' = [req EXCEPT ![w].pc = "tx_membership",
                                        ![w].tx = RoomCreateRows(room, alias),
                                        ![w].storage = @ + 1]
                  /\ UNCHANGED <<tables, next_room, others>>
               \/ EndTransaction(w, StorageCall(req[w]), req[w].tx, FALSE, "done",
                                 TransactionError("StorageError"))

\* RoomMembership::create(&connection, &config.domain, options)
\*     .map_err(ApiError::from)?;
\* Ok(room)
\* On Ok the closure returns the room and the transaction commits.
TxMembership(w) ==
    /\ req[w].pc = "tx_membership"
    /\ \/ EndTransaction(w, StorageCall(req[w]),
                          [req[w].tx EXCEPT !.room_memberships =
                                  {FoundingMembership(r) : r \in req[w].tx.rooms}],
                          TRUE, "done", "Ok")
       \/ EndTransaction(w, StorageCall(req[w]), req[w].tx, FALSE, "done",
                         TransactionError("StorageError"))

InTx(w) == req[w].pc \in {"tx_room_create", "tx_membership"}

\* The handler is aborted inside the transaction: the connection is dropped
\* and nothing is answered.
Abort(w) ==
    /\ InTx(w)
    /\ EndTransaction(w, req[w], req[w].tx, FALSE, "aborted", None)

\* The worker is free for the next request.
Finish(w) ==
    /\ req[w].pc \in {"done", "aborted", "panic"}
    /\ req' = [req EXCEPT ![w] = Idle]
    /\ UNCHANGED <<tables, next_room, others>>

ReceiveLogout ==
    \E w \in Workers, token \in 0..Len(access_tokens) :
        Receive(w, "logout", token, Idle.body)

ReceiveCreateRoom ==
    \E w \in Workers, token \in 0..Len(access_tokens), body \in Bodies :
        Receive(w, "createRoom", token, body)

\* The whole server: both endpoints.
Next ==
    \/ \E u \in Users : IssueToken(u)
    \/ ReceiveLogout
    \/ ReceiveCreateRoom
    \/ \E w \in Workers : LogoutHandle(w)
    \/ \E w \in Workers : CreateRoomHandle(w)
    \/ \E w \in Workers : TxRoomCreate(w)
    \/ \E w \in Workers : TxMembership(w)
    \/ \E w \in Workers : Abort(w)
    \/ \E w \in Workers : Finish(w)

Spec == Init /\ [][Next]_vars

\* The credential lifecycle: tokens are issued and /logout requests served.
NextLogout ==
    \/ \E u \in Users : IssueToken(u)
    \/ ReceiveLogout
    \/ \E w \in Workers : LogoutHandle(w)
    \/ \E w \in Workers : Finish(w)

SpecLogout == Init /\ [][NextLogout]_vars

\* The state once a token has been issued to each of the two users.
InitIssued ==
    /\ access_tokens = Issue(Issue(<<>>, "@alice"), "@bob")
    /\ rooms = {}
    /\ events = {}
    /\ room_memberships = {}
    /\ room_aliases = {}
    /\ next_room = 0
    /\ req = [w \in Workers |-> Idle]
    /\ ledger = <<>>
    /\ main = Serving
    /\ creation = NoCreation

\* Room creation: /createRoom requests served by the workers.
NextRooms ==
    \/ ReceiveCreateRoom
    \/ \E w \in Workers : CreateRoomHandle(w)
    \/ \E w \in Workers : TxRoomCreate(w)
    \/ \E w \in Workers : TxMembership(w)
    \/ \E w \in Workers : Abort(w)
    \/ \E w \in Workers : Finish(w)

SpecRooms == InitIssued /\ [][NextRooms]_vars

\* Both endpoints served by the workers.
NextServer ==
    \/ ReceiveLogout
    \/ ReceiveCreateRoom
    \/ \E w \in Workers : LogoutHandle(w)
    \/ \E w \in Workers : CreateRoomHandle(w)
    \/ \E w \in Workers : TxRoomCreate(w)
    \/ \E w \in Workers : TxMembership(w)
    \/ \E w \in Workers : Abort(w)
    \/ \E w \in Workers : Finish(w)

SpecServer == InitIssued /\ [][NextServer]_vars

\* ------------------------------------------------------------- creation options
\* let federate = match create_room_request.creation_content {
\*     Some(creation_content) => creation_content.federate.unwrap_or(true),
\*     None => true };
Federate_DefaultFalse(creation_content) ==
    IF creation_content.some
    THEN IF creation_content.federate.some THEN creation_content.federate.value ELSE FALSE
    ELSE TRUE

Federate(creation_content) ==
    IF creation_content.some
    THEN IF creation_content.federate.some THEN creation_content.federate.value ELSE TRUE
    ELSE TRUE

\* let preset = match create_room_request.preset {
\*     Some(preset) => preset,
\*     None => match new_room.public { true => PublicChat, false => PrivateChat } };
Preset_FromVisibilityOnly(preset, public) ==
    IF public THEN "PublicChat" ELSE "PrivateChat"

Preset(preset, public) ==
    IF preset # None THEN preset
    ELSE IF public THEN "PublicChat" ELSE "PrivateChat"

\* CreateRoom::handle from the validated request to new_room and
\* creation_options.
BuildOptions ==
    /\ creation.pc = "request"
    /\ creation' =
        IF ~validate(creation)
        THEN [creation EXCEPT !.pc = "rejected"]
        ELSE LET public == NewRoomPublic(creation.visibility) IN
             [creation EXCEPT !.pc = "built",
                              !.public = public,
                              !.federate = Federate(creation.creation_content),
                              !.options_preset = Preset(creation.preset, public)]
    /\ UNCHANGED <<tables, next_room, req, ledger, main>>

\* A request with any combination of visibility, preset and creation_content.
InitOptions ==
    /\ access_tokens = <<>>
    /\ rooms = {}
    /\ events = {}
    /\ room_memberships = {}
    /\ room_aliases = {}
    /\ next_room = 0
    /\ req = [w \in Workers |-> Idle]
    /\ ledger = <<>>
    /\ main = Serving
    /\ creation \in [pc : {"request"}, visibility : Visibilities, preset : Presets,
                      creation_content : CreationContents,
                      public : {FALSE}, federate : {FALSE}, options_preset : {None}]

NextOptions == BuildOptions

SpecOptions == InitOptions /\ [][NextOptions]_vars

\* ------------------------------------------------------------- membership ledger
\* The closed set of membership states.
Memberships == {"invite", "join", "leave", "ban", "knock"}

\* A row of room_memberships with its creation timestamp.
MembershipEvent(room_id, user_id, sender, membership, created_at) ==
    [room_id |-> room_id, user_id |-> user_id, sender |-> sender,
     membership |-> membership, created_at |-> created_at]

\* The positions in the ledger of the events of the pair (room, subject).
EventsOf(log, room_id, subject) ==
    {i \in 1..Len(log) : log[i].room_id = room_id /\ log[i].user_id = subject}

\* CurrentState: the state of the most recent event of the pair in the
\* ledger's sequence, none if the pair has no event.
CurrentState_ByTimestamp(log, room_id, subject) ==
    LET of == EventsOf(log, room_id, subject) IN
    IF of = {} THEN None
    ELSE log[CHOOSE i \in of :
                \A j \in of : \/ log[j].created_at < log[i].created_at
                              \/ log[j].created_at = log[i].created_at /\ i <= j].membership

CurrentState(log, room_id, subject) ==
    LET of == EventsOf(log, room_id, subject) IN
    IF of = {} THEN None
    ELSE log[CHOOSE i \in of : \A j \in of : j <= i].membership

\* The timestamp of the ledger's last row (the clock does not run backwards).
LastTime(log) == IF log = <<>> THEN 1 ELSE log[Len(log)].created_at

\* RecordMembership(room_id, subject, sender, state): appends an event,
\* stamped with the time of the call.
RecordMembership(room_id, subject, sender, state, now) ==
    /\ Len(ledger) < MaxEvents
    /\ now >= LastTime(ledger)
    /\ ledger' = Append(ledger, MembershipEvent(room_id, subject, sender, state, now))
    /\ UNCHANGED <<tables, next_room, req, main, creation>>

NextLedger ==
    \E subject \in Users, sender \in Users, state \in Memberships, now \in 1..MaxTime :
        RecordMembership(1, subject, sender, state, now)

SpecLedger == Init /\ [][NextLedger]_vars

\* ------------------------------------------------------------- startup
\* The length the decoded macaroon_secret_key must have.
MacaroonKeyBytes == 32

\* The keys a configuration file may hold.
Keys ==
    {k \in {Key(chars, pad, alphabet) :
                chars \in 0..MaxKeyChars, pad \in 0..2, alphabet \in BOOLEAN} :
        k.pad <= k.chars}

\* decode(&config.macaroon_secret_key): Base64 text is a whole number of
\* groups of four characters of the alphabet, the last of which may end in
\* one or two '='; every group gives three bytes, less one for each '='.
Decode(key) ==
    IF key.alphabet /\ key.chars % 4 = 0 /\ key.pad <= key.chars
    THEN [ok |-> TRUE, len |-> 3 * (key.chars \div 4) - key.pad]
    ELSE [ok |-> FALSE, len |-> 0]

\* Ok(bytes) => match bytes.len() { 32 => bytes, _ => return Err(..) },
\* Err(e) => return Err(..)
MacaroonSecretKeyOk_AnyLength(key) == Decode(key).ok

MacaroonSecretKeyOk(key) == Decode(key).ok /\ Decode(key).len = MacaroonKeyBytes

\* Config::from_file: Ok when a configuration file was found and parsed and
\* its macaroon_secret_key passes.
ConfigFromFile(file_ok, key) == file_ok /\ MacaroonSecretKeyOk(key)

\* ("run", Some(subcmd)): let config = match Config::from_file(..) {
\*     Ok(config) => config, Err(error) => { println!(..); return; } };
LoadConfig ==
    /\ main.pc = "start"
    /\ main' = [main EXCEPT !.pc = IF ConfigFromFile(main.file_ok, main.key)
                                   THEN "loaded" ELSE "exited"]
    /\ UNCHANGED <<tables, next_room, req, ledger, creation>>

\* match Server::new(&config) { Ok(server) => server.run(), Err(error) => return }
NewServer ==
    /\ main.pc = "loaded"
    /\ \E created \in BOOLEAN :
        main' = [main EXCEPT !.pc = IF created THEN "serving" ELSE "exited",
                             !.server = created]
    /\ UNCHANGED <<tables, next_room, req, ledger, creation>>

\* `ruma run` is started on some configuration file.
InitConfig ==
    /\ access_tokens = <<>>
    /\ rooms = {}
    /\ events = {}
    /\ room_memberships = {}
    /\ room_aliases = {}
    /\ next_room = 0
    /\ req = [w \in Workers |-> Idle]
    /\ ledger = <<>>
    /\ main \in [pc : {"start"}, file_ok : BOOLEAN, key : Keys, server : {FALSE}]
    /\ creation = NoCreation

NextConfig == LoadConfig \/ NewServer

SpecConfig == InitConfig /\ [][NextConfig]_vars

\* ------------------------------------------------------------- properties
\* Worker w takes in a request in this step (and its token is verified).
Received(w) == req[w].pc = "idle" /\ req'[w].pc # "idle"

Rejected(r) == r.pc = "done" /\ r.response = "Unauthenticated"

\* Worker w's /logout handler answers Ok in this step.
LoggedOut(w) ==
    /\ req[w].pc = "handle" /\ req[w].kind = "logout"
    /\ req'[w].pc = "done" /\ req'[w].response = "Ok"

Issued(t) == t \in 1..Len(access_tokens)

\* C1: a request presenting an issued token whose row has not been revoked
\* passes verification and is bound to the user the token was issued to; a
\* request presenting any other token is rejected as Unauthenticated; a
\* /logout that answers Ok leaves its token revoked, so a second /logout with
\* the same token is rejected.
C1_VerifyUntilRevoke ==
    [][\A w \in Workers :
        /\ Received(w) =>
            LET t == req'[w].token IN
            IF Issued(t) /\ ~access_tokens[t].revoked
            THEN /\ req'[w].pc = "handle"
                 /\ req'[w].user = access_tokens[t].user_id
                 /\ req'[w].access_token = t
            ELSE Rejected(req'[w])
        /\ LoggedOut(w) =>
            /\ access_tokens'[req[w].token].revoked
            /\ Verify(access_tokens', req[w].token) = 0]_vars

\* A second /logout with a token that a first /logout revoked has been rejected.
C1_Witness ==
    \E w \in Workers :
        /\ req[w].kind = "logout" /\ Rejected(req[w])
        /\ Issued(req[w].token) /\ access_tokens[req[w].token].revoked

\* C4: in every step every row of access_tokens keeps its id, user and value,
\* and its revoked flag stays or goes from false to true; the value of a
\* revoked row never verifies, whatever rows were issued after it.
C4_RevokedMonotonic ==
    [][/\ \A i \in 1..Len(access_tokens) :
            /\ i <= Len(access_tokens')
            /\ access_tokens'[i].user_id = access_tokens[i].user_id
            /\ access_tokens'[i].value = access_tokens[i].value
            /\ access_tokens[i].revoked => access_tokens'[i].revoked
       /\ \A i \in 1..Len(access_tokens') :
            access_tokens'[i].revoked => Verify(access_tokens', access_tokens'[i].value) = 0]_vars

\* A token was revoked and another token was issued after it.
C4_Witness ==
    \E i \in 1..Len(access_tokens) :
        /\ access_tokens[i].revoked
        /\ i < Len(access_tokens)
        /\ ~access_tokens[Len(access_tokens)].revoked

\* Worker o has answered Ok to a /logout with token t.
RevokeApplied(o, t) ==
    /\ req[o].kind = "logout" /\ req[o].pc = "done" /\ req[o].response = "Ok"
    /\ req[o].token = t

\* C5: once a /logout of another worker has applied the revoke of token T,
\* a request that presents T is rejected, also while further requests that
\* verified T before the revoke are still being handled.
C5_RevokeVisibleToConcurrentVerify ==
    [][\A w \in Workers, o \in Workers :
        (w # o /\ Received(w) /\ RevokeApplied(o, req'[w].token)) => Rejected(req'[w])]_vars

\* One worker has revoked T and answered, the other presented T afterwards
\* and was rejected.
C5_Witness ==
    \E w \in Workers, o \in Workers :
        /\ w # o
        /\ req[o].token # 0 /\ RevokeApplied(o, req[o].token)
        /\ req[w].token = req[o].token /\ Rejected(req[w])

\* Rows of the room tables that belong to room id.
RowsOf(id) ==
    [rooms |-> {r \in rooms : r.id = id},
     events |-> {e \in events : e.room_id = id},
     room_memberships |-> {m \in room_memberships : m.room_id = id},
     room_aliases |-> {a \in room_aliases : a.room_id = id}]

HasCreationEvent(id, user_id) ==
    \E e \in events : e.room_id = id /\ e.event_type = "m.room.create" /\ e.user_id = user_id

HasFoundingJoin(id, user_id) ==
    \E m \in room_memberships :
        m.room_id = id /\ m.user_id = user_id /\ m.membership = "join"

\* A /createRoom of worker w has ended without a room: answered with an
\* error, or aborted.
Failed(r) ==
    /\ r.kind = "createRoom"
    /\ \/ r.pc = "aborted"
       \/ r.pc = "done" /\ r.response # "Ok"

\* C2: the committed tables hold a Room row for a room id exactly when they
\* hold the creation event of that room and a "join" membership of its
\* creator: a Room row has both, and neither exists without the Room row.
C2_RoomIffFounding ==
    /\ \A r \in rooms : HasCreationEvent(r.id, r.user_id) /\ HasFoundingJoin(r.id, r.user_id)
    /\ \A e \in events : \E r \in rooms : r.id = e.room_id /\ r.user_id = e.user_id
    /\ \A m \in room_memberships : \E r \in rooms : r.id = m.room_id /\ r.user_id = m.user_id

\* A room was committed while another attempt has failed after its
\* transaction had opened.
C2_Witness ==
    /\ rooms # {}
    /\ \E w \in Workers : Failed(req[w]) /\ req[w].room_id # 0

\* C3: a step that ends an open transaction without an Ok answer (a failed
\* statement, a taken alias, an abort) leaves every table as it was, and
\* afterwards no table holds a row of the attempted room.
C3_FailureRollsBack ==
    [][\A w \in Workers :
        (InTx(w) /\ Failed(req'[w])) =>
            /\ tables' = tables
            /\ req'[w].room_id = req[w].room_id
            /\ RowsOf(req[w].room_id)' = EmptyTx]_vars

\* A request was aborted inside its transaction while the room of an earlier
\* request is committed.
C3_Witness ==
    /\ rooms # {}
    /\ \E w \in Workers : req[w].pc = "aborted" /\ req[w].room_id > 1

\* C6: every alias is reserved for at most one room, which is committed and
\* owned by the alias's user; an alias written by an open transaction is
\* held by no committed row and by no other open transaction, so of the
\* requests that ask for one alias at most one commits.
C6_AliasExclusive ==
    /\ \A a \in room_aliases, b \in room_aliases : a.alias = b.alias => a = b
    /\ \A a \in room_aliases : \E r \in rooms : r.id = a.room_id /\ r.user_id = a.user_id
    /\ \A w \in Workers : \A p \in req[w].tx.room_aliases :
        /\ \A a \in room_aliases : a.alias # p.alias
        /\ \A o \in Workers \ {w} : \A q \in req[o].tx.room_aliases : q.alias # p.alias

\* Two requests ask for the same alias at once: one has reserved it in its
\* open transaction, the other is inside its own transaction waiting.
C6_Witness ==
    \E w \in Workers, o \in Workers :
        /\ w # o
        /\ req[w].pc = "tx_membership" /\ req[w].tx.room_aliases # {}
        /\ req[o].pc = "tx_room_create"
        /\ \E p \in req[w].tx.room_aliases : req[o].body.room_alias_name = p.alias

\* Worker w's Room::create runs in this step for an alias a committed room holds.
AliasConflict(w) ==
    /\ req[w].pc = "tx_room_create" /\ req'[w].pc = "done"
    /\ req[w].body.room_alias_name # None
    /\ \E a \in room_aliases : a.alias = req[w].body.room_alias_name

InvalidVisibility(body) == body.parsed /\ body.visibility \notin {None, "public", "private"}

\* C8: the handler of an authenticated /createRoom whose visibility is
\* present and neither "public" nor "private" answers M_BAD_JSON in its
\* first step, changing no table and generating no room id; no open
\* transaction belongs to such a request.
C8_InvalidVisibility ==
    [][/\ \A w \in Workers :
            (/\ req[w].pc = "handle" /\ req[w].kind = "createRoom"
             /\ req[w].user # None /\ InvalidVisibility(req[w].body)
             /\ req'[w] # req[w]) =>
                /\ req'[w].pc = "done" /\ req'[w].response = "M_BAD_JSON"
                /\ tables' = tables /\ next_room' = next_room
       /\ \A w \in Workers : InTx(w)' => ~InvalidVisibility(req'[w].body)]_vars

\* An authenticated request with another visibility string was answered M_BAD_JSON.
C8_Witness ==
    \E w \in Workers :
        /\ req[w].kind = "createRoom" /\ req[w].pc = "done"
        /\ req[w].response = "M_BAD_JSON" /\ req[w].body.visibility = "bogus"

\* C9: the Room row of every /createRoom that was answered Ok is public
\* exactly when the request's visibility was "public" (so it is private for
\* an absent visibility and for "private").
C9_PublicIffVisibilityPublic ==
    \A w \in Workers :
        (req[w].kind = "createRoom" /\ req[w].pc = "done" /\ req[w].response = "Ok") =>
            \E r \in rooms :
                /\ r.id = req[w].room_id
                /\ r.public = (req[w].body.visibility = "public")
                /\ \A q \in rooms : q.id = r.id => q = r

\* Answered Ok at once: a request with visibility "public" and a request
\* without visibility.
C9_Witness ==
    \E w \in Workers, o \in Workers :
        /\ req[w].pc = "done" /\ req[w].response = "Ok" /\ req[w].body.visibility = "public"
        /\ req[o].pc = "done" /\ req[o].response = "Ok" /\ req[o].body.visibility = None
        /\ req[o].kind = "createRoom" /\ req[w].kind = "createRoom"

Authenticated(r) ==
    /\ r.access_token \in 1..Len(access_tokens)
    /\ r.user = access_tokens[r.access_token].user_id
    /\ r.token = access_tokens[r.access_token].value

\* C10: a request whose token does not resolve is answered Unauthenticated
\* when it is taken in and never reaches a handler; no handler panics on a
\* missing User or AccessToken; every request inside a handler or a
\* transaction carries the resolved user and token; and every step that
\* changes a table is taken by such a request.
C10_HandlersOnlyAuthenticated ==
    [][/\ \A w \in Workers :
            /\ (Received(w) /\ Verify(access_tokens, req'[w].token) = 0) => Rejected(req'[w])
            /\ req'[w].pc # "panic"
            /\ (req'[w].pc = "handle" \/ InTx(w)') => Authenticated(req'[w])
       /\ tables' # tables =>
            \E w \in Workers :
                /\ req[w].pc = "handle" \/ InTx(w)
                /\ Authenticated(req[w])
                /\ req'[w] # req[w]]_vars

\* An unauthenticated /createRoom and an unauthenticated /logout were
\* rejected; no room exists and no token is revoked.
C10_Witness ==
    /\ rooms = {}
    /\ \A i \in 1..Len(access_tokens) : ~access_tokens[i].revoked
    /\ \E w \in Workers, o \in Workers :
        /\ req[w].kind = "createRoom" /\ Rejected(req[w]) /\ req[w].token = 0
        /\ req[o].kind = "logout" /\ Rejected(req[o]) /\ req[o].token = 0

\* C11: a /logout that answers Ok for a token whose row is already revoked
\* (a second logout that had passed authentication before the first one
\* applied its revoke) leaves access_tokens as it was; and revoking a token
\* twice gives the same store as revoking it once.
C11_RevokeIdempotent ==
    [][/\ \A w \in Workers :
            (LoggedOut(w) /\ access_tokens[req[w].access_token].revoked) =>
                access_tokens' = access_tokens
       /\ \A i \in 1..Len(access_tokens) :
            LogoutRevoke(LogoutRevoke(access_tokens, i), i) = LogoutRevoke(access_tokens, i)]_vars

\* Two logouts with one token had both passed authentication and both
\* answered Ok.
C11_Witness ==
    \E w \in Workers, o \in Workers :
        /\ w # o
        /\ req[w].token # 0 /\ req[o].token = req[w].token
        /\ RevokeApplied(w, req[w].token) /\ RevokeApplied(o, req[w].token)

\* Worker w's /createRoom handler answers M_BAD_JSON in this step.
BadJson(w) ==
    /\ req[w].kind = "createRoom" /\ req[w].pc # "done"
    /\ req'[w].pc = "done" /\ req'[w].response = "M_BAD_JSON"

StructurallyInvalid(body) == ~body.parsed \/ InvalidVisibility(body)

\* C12 as stated: a /createRoom that was answered M_BAD_JSON has made no
\* storage call at all.
C12_NoStorageAccessAtAll ==
    \A w \in Workers :
        (req[w].kind = "createRoom" /\ req[w].pc = "done" /\ req[w].response = "M_BAD_JSON") =>
            req[w].storage = 0

\* C12: a /createRoom whose body is structurally invalid is answered
\* M_BAD_JSON by the handler's first step: the one storage call made for the
\* request is the middleware's resolution of the token, the handler makes
\* none, no table changes, no room id is generated, and the request never
\* has a transaction open.
C12_BadJsonBeforeHandlerStorage ==
    [][\A w \in Workers :
        /\ (/\ req[w].pc = "handle" /\ req[w].kind = "createRoom"
            /\ req[w].user # None /\ StructurallyInvalid(req[w].body)
            /\ req'[w] # req[w]) => BadJson(w)
        /\ BadJson(w) =>
            /\ req[w].pc = "handle" /\ req[w].tx = EmptyTx
            /\ req'[w].storage = req[w].storage /\ req[w].storage = 1
            /\ tables' = tables /\ next_room' = next_room
        /\ InTx(w)' => ~StructurallyInvalid(req'[w].body)]_vars

\* A request whose body does not have the structure of CreateRoomRequest was
\* answered M_BAD_JSON after its token had been resolved.
C12_Witness ==
    \E w \in Workers :
        /\ req[w].kind = "createRoom" /\ req[w].pc = "done"
        /\ req[w].response = "M_BAD_JSON" /\ req[w].body.visibility = None
        /\ req[w].storage = 1

\* The answer to request r but for the token it echoes.
Observable(r) == [r EXCEPT !.token = 0, !.access_token = 0]

\* The answer a request of this kind and body gets when it presents a
\* value that was never issued.
NeverIssuedAnswer(kind, body) ==
    BeforeChain([Idle EXCEPT !.kind = kind, !.token = 0, !.body = body], access_tokens)

\* C13: a request that presents a revoked token is answered exactly as the
\* same request presenting a value that was never issued: Unauthenticated,
\* with nothing in the answer that tells the two apart.
C13_RevokedLikeNeverIssued ==
    [][\A w \in Workers :
        (/\ Received(w)
         /\ Issued(req'[w].token) /\ access_tokens[req'[w].token].revoked) =>
            /\ Rejected(req'[w])
            /\ Rejected(NeverIssuedAnswer(req'[w].kind, req'[w].body))
            /\ Observable(req'[w]) = Observable(NeverIssuedAnswer(req'[w].kind, req'[w].body))]_vars

\* A /logout with a revoked token and a /logout with a never-issued value
\* have both been answered.
C13_Witness ==
    \E w \in Workers, o \in Workers :
        /\ req[w].kind = "logout" /\ req[w].pc = "done"
        /\ Issued(req[w].token) /\ access_tokens[req[w].token].revoked
        /\ Rejected(req[w])
        /\ req[o].kind = "logout" /\ Rejected(req[o]) /\ req[o].token = 0

\* Worker w ends, in this step, an authenticated /createRoom with a valid body.
ValidCreateRoomEnds(w) ==
    /\ req[w].kind = "createRoom"
    /\ req[w].pc = "handle" \/ InTx(w)
    /\ Authenticated(req[w]) /\ ~StructurallyInvalid(req[w].body)
    /\ req'[w].pc = "done"

\* The committed Room row of the room id that request r was answered with
\* exists, is the only row of that id and is owned by the user of r's token.
RoomCommittedIn(table, r) ==
    \E row \in table :
        /\ row.id = r.room_id
        /\ row.user_id = access_tokens[r.token].user_id
        /\ \A q \in table : q.id = row.id => q = row

RoomCommittedFor(r) == RoomCommittedIn(rooms, r)

\* C14 as stated: every authenticated /createRoom with a valid body that was
\* not refused for a taken alias has succeeded with a committed room of the
\* token's user.
C14_EveryValidCreateRoomSucceeds ==
    \A w \in Workers :
        (/\ req[w].kind = "createRoom" /\ req[w].pc = "done"
         /\ req[w].response \notin {"Unauthenticated", "M_BAD_JSON", "Conflict"}) =>
            req[w].response = "Ok" /\ RoomCommittedFor(req[w])

\* C14: an authenticated /createRoom with a valid body ends in Ok or, when
\* a storage step fails, in StorageError, and in Conflict only for an alias a
\* committed room holds; whenever it ends in Ok the returned room id is that
\* of a Room row committed by this step and owned by the token's user, and
\* the row stays.
C14_ValidCreateRoomOkOrStorageError ==
    [][\A w \in Workers :
        /\ ValidCreateRoomEnds(w) =>
            /\ req'[w].response \in {"Ok", "StorageError", "Conflict"}
            /\ req'[w].response = "Conflict" => AliasConflict(w)
            /\ req'[w].response = "Ok" =>
                /\ RoomCommittedIn(rooms', req'[w])
                /\ req[w].user = access_tokens[req'[w].token].user_id
                /\ \A row \in rooms : row.id # req'[w].room_id
        /\ (req[w].kind = "createRoom" /\ req[w].pc = "done" /\ req[w].response = "Ok") =>
            RoomCommittedIn(rooms', req[w])]_vars

\* Two requests with the body {} were answered Ok, one for each user.
C14_Witness ==
    \E w \in Workers, o \in Workers :
        /\ req[w].kind = "createRoom" /\ req[w].pc = "done" /\ req[w].response = "Ok"
        /\ req[o].kind = "createRoom" /\ req[o].pc = "done" /\ req[o].response = "Ok"
        /\ req[w].body.visibility = None /\ req[o].body.visibility = None
        /\ req[w].token # req[o].token
        /\ RoomCommittedFor(req[w]) /\ RoomCommittedFor(req[o])

Base64Of32Bytes(key) == key = Key(44, 1, TRUE)

\* C16: the configuration is loaded, and a server created, only for a file
\* whose macaroon_secret_key is the Base64 text of exactly 32 bytes; for
\* every other key the run command has exited once Config::from_file has
\* returned, and no server was created.
C16_ConfigNeedsKeyOf32Bytes ==
    /\ (main.pc \in {"loaded", "serving"} \/ main.server) =>
            main.file_ok /\ Base64Of32Bytes(main.key)
    /\ (main.pc # "start" /\ ~Base64Of32Bytes(main.key)) =>
            main.pc = "exited" /\ ~main.server

\* The run command has exited on a key that is Base64 but decodes to 36 bytes.
C16_Witness ==
    /\ main.pc = "exited" /\ ~main.server /\ main.file_ok
    /\ main.key = Key(48, 0, TRUE)

\* Worker w's /createRoom answers Ok in this step.
Created(w) ==
    /\ req[w].kind = "createRoom" /\ req[w].pc # "done"
    /\ req'[w].pc = "done" /\ req'[w].response = "Ok"

\* C17: the step in which a /createRoom answers Ok commits the Room row and,
\* with it, exactly one membership row: room = the new room, subject and
\* sender = the creator, state "join"; no other step adds a membership row,
\* so every room has exactly that one.
C17_OneFoundingJoinPerRoom ==
    [][/\ \A w \in Workers :
            Created(w) =>
                LET id == req'[w].room_id
                    creator == req[w].user
                IN
                /\ rooms' \ rooms = {RoomRow(id, creator, req[w].body.visibility = "public")}
                /\ room_memberships' \ room_memberships =
                        {RoomMembershipRow(id, creator, creator, "join")}
                /\ room_memberships \subseteq room_memberships'
       /\ room_memberships' # room_memberships => \E w \in Workers : Created(w)
       /\ \A r \in rooms' :
            Cardinality({e \in room_memberships' : e.room_id = r.id}) = 1]_vars

\* Each of the two users has created a room; each room has its creator's join.
C17_Witness ==
    \E r \in rooms, q \in rooms :
        /\ r.user_id # q.user_id
        /\ RoomMembershipRow(r.id, r.user_id, r.user_id, "join") \in room_memberships
        /\ RoomMembershipRow(q.id, q.user_id, q.user_id, "join") \in room_memberships
        /\ Cardinality(room_memberships) = 2

\* C18 as stated: a room is public when the request asks for the preset
\* PublicChat without a visibility, as it is for the visibility "public".
C18_PublicPresetMakesPublic ==
    creation.pc = "built" =>
        /\ (creation.preset = "PublicChat" /\ creation.visibility = None) => creation.public
        /\ creation.visibility = "public" => creation.public
        /\ (creation.preset = None /\ creation.visibility = None) => ~creation.public

\* C18: the room is public exactly when the request's visibility is
\* "public", whatever preset it asks for: it is private for every request
\* without a visibility, the one with preset PublicChat included.
C18_PublicFromVisibilityOnly ==
    creation.pc = "built" =>
        /\ creation.public = (creation.visibility = "public")
        /\ creation.visibility = None => ~creation.public

\* The options of a request with preset PublicChat and no visibility were
\* built: the room is private, the preset PublicChat.
C18_Witness ==
    /\ creation.pc = "built"
    /\ creation.preset = "PublicChat" /\ creation.visibility = None
    /\ ~creation.public /\ creation.options_preset = "PublicChat"

\* C19: the federate flag of the creation options is true when the request
\* has no creation_content, true when its creation_content has no
\* m.federate, and the given value otherwise: false only for an explicit
\* false.
C19_FederateUnlessExplicitlyFalse ==
    creation.pc = "built" =>
        LET cc == creation.creation_content IN
        /\ ~cc.some => creation.federate
        /\ (cc.some /\ ~cc.federate.some) => creation.federate
        /\ (cc.some /\ cc.federate.some) => creation.federate = cc.federate.value
        /\ ~creation.federate <=> cc = [some |-> TRUE, federate |-> [some |-> TRUE, value |-> FALSE]]

\* The options of a request whose creation_content has no m.federate were
\* built with federate = true.
C19_Witness ==
    /\ creation.pc = "built"
    /\ creation.creation_content = [some |-> TRUE, federate |-> NoBool]
    /\ creation.federate

\* C20: a /logout that answers Ok changes no row of access_tokens but the
\* one of the presented token: every other row, of the same user or of
\* another, is as it was, every other unrevoked token still verifies to its
\* own row and user, and no other table changes.
C20_LogoutRevokesOnlyItsToken ==
    [][\A w \in Workers :
        LoggedOut(w) =>
            /\ Len(access_tokens') = Len(access_tokens)
            /\ \A i \in 1..Len(access_tokens) :
                i # req[w].access_token =>
                    /\ access_tokens'[i] = access_tokens[i]
                    /\ ~access_tokens[i].revoked =>
                        /\ Verify(access_tokens', access_tokens[i].value) = i
                        /\ access_tokens'[Verify(access_tokens', access_tokens[i].value)].user_id
                                = access_tokens[i].user_id
            /\ room_tables' = room_tables]_vars

\* A user with two tokens has logged out with one of them; the other is not
\* revoked.
C20_Witness ==
    \E w \in Workers, j \in 1..Len(access_tokens) :
        /\ req[w].token # 0 /\ RevokeApplied(w, req[w].token)
        /\ j # req[w].token
        /\ access_tokens[j].user_id = access_tokens[req[w].token].user_id
        /\ access_tokens[req[w].token].revoked /\ ~access_tokens[j].revoked

\* C21: the preset of the creation options is the request's preset whenever
\* the request gives one, whatever its visibility; for a request without a
\* preset it is PublicChat when the visibility is "public" and PrivateChat
\* when the visibility is absent or "private".
C21_PresetFromRequestElseVisibility ==
    creation.pc = "built" =>
        /\ creation.preset # None => creation.options_preset = creation.preset
        /\ (creation.preset = None /\ creation.visibility = "public") =>
                creation.options_preset = "PublicChat"
        /\ (creation.preset = None /\ creation.visibility \in {None, "private"}) =>
                creation.options_preset = "PrivateChat"
        /\ creation.options_preset \in Presets \ {None}

\* The options of a request with visibility "public" and preset
\* TrustedPrivateChat were built with the preset TrustedPrivateChat.
C21_Witness ==
    /\ creation.pc = "built"
    /\ creation.visibility = "public" /\ creation.preset = "TrustedPrivateChat"
    /\ creation.options_preset = "TrustedPrivateChat" /\ creation.public

====
